---- MODULE Spec2Model ----
(***************************************************************************)
(* A model of remoulade's composition engine (composition.py), its result  *)
(* collection (collection_results.py) and its lifecycle recorder           *)
(* (state/middleware.py).                                                  *)
(*                                                                         *)
(* Python values are represented as follows.                               *)
(*   - A composition node (Message, pipeline, group) is a record           *)
(*     [kind, id, children, cancel_on_error]; id is message_id,            *)
(*     pipeline_id or group_id.                                            *)
(*   - A dict is a function whose DOMAIN is its set of keys.               *)
(*   - A nested id list (message_ids) is a sequence of records             *)
(*     [is_list, id, items].                                               *)
(*   - None is the integer None (-1) where an integer is expected and the  *)
(*     string "None" where a name is expected.                             *)
(***************************************************************************)
EXTENDS Integers, Sequences, FiniteSets, TLC

VARIABLES
    stack,          \* composition objects the caller holds, oldest first
    nextId,         \* next value of generate_unique_id / next message id
    log,            \* broker and cancel-store calls, in call order
    lastOp,         \* the operation executed last and what it returned
    err,            \* the exception the last operation raised ("" if none)
    phase,          \* what the caller is doing: "compose", "view", "hooks", "running", then how it ended
    cancelBackend,  \* whether the broker has a cancel backend
    states,         \* the state store: message_id -> State record
    now,            \* the clock (ms)
    view,           \* the Result View the caller built last
    lastHook,       \* message_id -> the lifecycle hook that set its state name last
    call,           \* the arguments of the running get() and its start time
    frames,         \* the active get() generators, outermost first
    fetches,        \* the get_results calls made to the result store, in order
    stored,         \* the ids the result store held a result for at the last status query
    returned        \* what the last status operation returned

vars == <<stack, nextId, log, lastOp, err, phase, cancelBackend, states, now, view,
          lastHook, call, frames, fetches, stored, returned>>

\* the state of result collection and of the hook history
getVars == <<lastHook, call, frames, fetches, stored, returned>>

\* ------------------------------------------------------------------ bounds
MaxIds == 5
MaxKids == 3

None == 0 - 1

\* F(v), with v evaluated once
With(v, F(_)) == CHOOSE r \in {F(x) : x \in {v}} : TRUE

\* ------------------------------------------------------------ dict helpers
EmptyDict == <<>>

HasKey(d, k) == k \in DOMAIN d

SetKey(d, k, v) == [x \in (DOMAIN d) \cup {k} |-> IF x = k THEN v ELSE d[x]]

\* {**a, **b}: the keys of b override those of a
Merge(a, b) == [x \in (DOMAIN a) \cup (DOMAIN b) |-> IF x \in DOMAIN b THEN b[x] ELSE a[x]]

\* ------------------------------------------------------- composition nodes
Message(id) == [kind |-> "message", id |-> id, children |-> <<>>, cancel_on_error |-> FALSE]

IsPipeline(x) == x.kind = "pipeline"
IsGroup(x) == x.kind = "group"
IsMessage(x) == x.kind = "message"

\* Message.copy(): a new message with the same fields
Copy(m) == Message(m.id)

\* Message.build(options): a copy whose options are updated with `options`
\* (the messages of the model carry no options of their own)
MessageBuild(m, options) == [type |-> "Message", message_id |-> m.id, options |-> options]

\* Message.asdict(): the dict form of a built message
AsDict(u) == [message_id |-> u.message_id, options |-> u.options]

AsDicts(units) == [i \in 1..Len(units) |-> AsDict(units[i])]

\* ------------------------------------------------------------- message_ids
IdLeaf(id) == [is_list |-> FALSE, id |-> id, items |-> <<>>]
IdList(items) == [is_list |-> TRUE, id |-> None, items |-> items]

RECURSIVE message_ids(_)
\* pipeline.message_ids and group.message_ids: list(x.message_ids)
message_ids(x) ==
    [i \in 1..Len(x.children) |->
        LET child == x.children[i] IN
        IF (IsPipeline(x) /\ IsGroup(child)) \/ (IsGroup(x) /\ IsPipeline(child))
        THEN IdList(message_ids(child))
        ELSE IdLeaf(child.id)]

RECURSIVE flatten(_)
\* common.flatten: the leaves of a nested list, in order
flatten(ids) ==
    IF Len(ids) = 0 THEN <<>>
    ELSE (IF Head(ids).is_list THEN flatten(Head(ids).items) ELSE <<Head(ids).id>>)
         \o flatten(Tail(ids))

\* ------------------------------------------------------------ log events
Event(op, id, ids, unit) == [op |-> op, id |-> id, ids |-> ids, unit |-> unit]

EmitPipeline(p) ==
    Event("before_build_messages_pipeline", p.id,
          [i \in 1..Len(p.children) |-> p.children[i].id], <<>>)

\* the group is announced with the signal of a pipeline
EmitGroupAsPipeline(g) ==
    Event("before_build_messages_pipeline", g.id, flatten(message_ids(g)), <<>>)

EmitGroup(g) == Event("before_build_group_pipeline", g.id, flatten(message_ids(g)), <<>>)

Enqueued(u) == Event("enqueue", u.message_id, <<>>, <<u>>)

CancelCall(ids) == Event("cancel", None, ids, <<>>)

\* ------------------------------------------------------------ state store
StateNames == {"Pending", "Started", "Success", "Failure", "Skipped", "Canceled"}

\* State(message_id, state_name, **kwargs): the fields a hook does not pass are None
State(state_name, fields) ==
    Merge([state_name |-> state_name, priority |-> None, group_id |-> None,
           pipeline_id |-> None, enqueued_datetime |-> None,
           started_datetime |-> None, end_datetime |-> None], fields)

\* backend.set_state: an upsert keyed by message_id that keeps the stored value of
\* every field the new record leaves None
set_state(store, message_id, state) ==
    LET old == IF message_id \in DOMAIN store THEN store[message_id]
               ELSE State("None", EmptyDict)
        new == [f \in DOMAIN state |->
                   IF f = "state_name"
                   THEN (IF state[f] = "None" THEN old[f] ELSE state[f])
                   ELSE (IF state[f] = None THEN old[f] ELSE state[f])]
    IN [x \in (DOMAIN store) \cup {message_id} |-> IF x = message_id THEN new ELSE store[x]]

\* MessageState.save
save(store, message_id, state_name, priority, kwargs) ==
    set_state(store, message_id, State(state_name, SetKey(kwargs, "priority", priority)))

\* broker.get_actor(actor_name).priority
ActorPriority == 0

\* MessageState.after_enqueue
after_enqueue(store, u, time) ==
    LET group_id == IF HasKey(u.options, "group_info")
                    THEN u.options["group_info"].group_id ELSE None
    IN save(store, u.message_id, "Pending", ActorPriority,
            [enqueued_datetime |-> time, group_id |-> group_id])

\* MessageState.after_skip_message
after_skip_message(store, message_id) ==
    save(store, message_id, "Skipped", None, EmptyDict)

\* MessageState.after_message_canceled
after_message_canceled(store, message_id) ==
    save(store, message_id, "Canceled", None, EmptyDict)

\* Success and Failure are exchanged
after_process_message_inverted(store, message_id, exception, time) ==
    save(store, message_id, IF exception THEN "Success" ELSE "Failure", None,
         [end_datetime |-> time])

\* MessageState.after_process_message; exception = FALSE stands for `exception is None`
after_process_message(store, message_id, exception, time) ==
    save(store, message_id, IF ~exception THEN "Success" ELSE "Failure", None,
         [end_datetime |-> time])

\* the hook also passes the time as the enqueued timestamp
before_process_message_enqueued(store, message_id, time) ==
    save(store, message_id, "Started", None,
         [started_datetime |-> time, enqueued_datetime |-> time])

\* MessageState.before_process_message
before_process_message(store, message_id, time) ==
    save(store, message_id, "Started", None, [started_datetime |-> time])

RECURSIVE before_build_messages_pipeline(_, _, _)
\* MessageState.before_build_messages_pipeline: one save per element of `messages`;
\* save reads message.args, which a group does not have, so the hook ends at the
\* first element that is a group (emit_before logs the exception and goes on)
before_build_messages_pipeline(store, pipeline_id, messages) ==
    IF Len(messages) = 0 THEN store
    ELSE IF ~IsMessage(Head(messages)) THEN store
    ELSE before_build_messages_pipeline(
            save(store, Head(messages).id, "None", None, [pipeline_id |-> pipeline_id]),
            pipeline_id, Tail(messages))

\* -------------------------------------------------------------- the build
\* GroupInfo(...).asdict() of group.info
Info(g) ==
    [group_id |-> g.id, children_count |-> Len(g.children),
     cancel_on_error |-> g.cancel_on_error]

RECURSIVE PipelineBuildLoop(_, _, _)
RECURSIVE GroupBuildLoop(_, _, _)
RECURSIVE PipelineBuild(_, _, _)
RECURSIVE GroupBuild(_, _, _)

\* `if next_child:` of pipeline.build: a list is true when it is not empty
NextChildIsTrue(st) == st.has_next /\ Len(st.next_child) > 0

\* The options of one child in pipeline.build, before pipeline_id is written
ChildOptions(st) ==
    IF NextChildIsTrue(st) THEN [pipe_target |-> AsDicts(st.next_child)]
    ELSE st.last_options

\* One iteration of `for child in reversed(self.children)` of pipeline.build, and
\* the iterations after it.  st.last_options is the dict the caller passed (the
\* assignment options["pipeline_id"] = ... writes into that very dict when
\* `last_options or {}` returns it, which st.shared says).
PipelineBuildLoop(p, i, st) ==
    IF i = 0 \/ st.err # "" THEN st
    ELSE
      LET child == p.children[i]
          options == SetKey(ChildOptions(st), "pipeline_id", p.id)
          after == IF ~NextChildIsTrue(st) /\ st.shared THEN options ELSE st.last_options
      IN IF IsGroup(child)
         THEN With(GroupBuild(child, options, TRUE), LAMBDA r :
              With([next_child |-> r.units, has_next |-> TRUE, last_options |-> after,
                    shared |-> st.shared, emits |-> st.emits \o r.emits, err |-> r.err],
                   LAMBDA st2 : PipelineBuildLoop(p, i - 1, st2)))
         ELSE With([next_child |-> <<MessageBuild(child, options)>>, has_next |-> TRUE,
                    last_options |-> after, shared |-> st.shared,
                    emits |-> st.emits, err |-> ""],
                   LAMBDA st2 : PipelineBuildLoop(p, i - 1, st2))

\* pipeline.build(last_options=...); given = FALSE stands for last_options=None.
\* Returns the units (none = TRUE when build returns None), the notifications
\* emitted on the way, the caller's dict as build leaves it, and the exception.
PipelineBuild(p, last_options, given) ==
    With(PipelineBuildLoop(p, Len(p.children),
            [next_child |-> <<>>, has_next |-> FALSE,
             last_options |-> IF given THEN last_options ELSE EmptyDict,
             shared |-> given /\ DOMAIN last_options # {}, emits |-> <<>>, err |-> ""]),
         LAMBDA st :
            [units |-> st.next_child, none |-> ~st.has_next,
             last_options |-> st.last_options, emits |-> st.emits, err |-> st.err])

\* One iteration of `for group_child in self.children` of group.build, and the
\* iterations after it.
GroupBuildLoop(g, i, st) ==
    IF i > Len(g.children) \/ st.err # "" THEN st
    ELSE
      LET group_child == g.children[i]
      IN IF IsPipeline(group_child)
         THEN With(PipelineBuild(group_child, st.options, TRUE), LAMBDA r :
              With([messages |-> IF r.none THEN st.messages ELSE st.messages \o r.units,
                    options |-> r.last_options, emits |-> st.emits \o r.emits,
                    \* messages += None
                    err |-> IF r.err # "" THEN r.err
                            ELSE IF r.none THEN "TypeError" ELSE ""],
                   LAMBDA st2 : GroupBuildLoop(g, i + 1, st2)))
         ELSE With([messages |-> Append(st.messages, MessageBuild(group_child, st.options)),
                    options |-> st.options, emits |-> st.emits, err |-> ""],
                   LAMBDA st2 : GroupBuildLoop(g, i + 1, st2))

\* the group_info is left out
GroupOptionsWithoutInfo(g, options) == options

\* {"group_info": self.info.asdict(), **options}
GroupOptions(g, options) == Merge([group_info |-> Info(g)], options)

\* group.build(options); given = FALSE stands for options=None
GroupBuild(g, options, given) ==
    With(GroupBuildLoop(g, 1,
            [messages |-> <<>>,
             options |-> GroupOptions(g, IF given THEN options ELSE EmptyDict),
             emits |-> IF given THEN <<EmitGroup(g)>> ELSE <<>>, err |-> ""]),
         LAMBDA st : [units |-> st.messages, emits |-> st.emits, err |-> st.err])

\* ------------------------------------------------------------ Result View
Result(message_id) == [is_collection |-> FALSE, message_id |-> message_id, children |-> <<>>]

CollectionResults(children) ==
    [is_collection |-> TRUE, message_id |-> None, children |-> children]

\* message_id[0]
First(items) == items[1]

\* message_id[-1]
Last(items) == items[Len(items)]

RECURSIVE from_message_ids(_)
\* CollectionResults.from_message_ids: [ok, value]; ok = FALSE when message_id[-1]
\* raises IndexError (an empty list)
from_message_ids(ids) ==
    LET child(message_id) ==
            IF message_id.is_list
            THEN IF Len(message_id.items) = 0
                 THEN [ok |-> FALSE, value |-> Result(None)]
                 ELSE LET last == Last(message_id.items)
                      IN IF last.is_list THEN from_message_ids(last.items)
                         ELSE [ok |-> TRUE, value |-> Result(last.id)]
            ELSE [ok |-> TRUE, value |-> Result(message_id.id)]
        children == [i \in 1..Len(ids) |-> child(ids[i])]
    IN IF \E i \in 1..Len(ids) : ~children[i].ok
       THEN [ok |-> FALSE, value |-> CollectionResults(<<>>)]
       ELSE [ok |-> TRUE,
             value |-> CollectionResults([i \in 1..Len(ids) |-> children[i].value])]

RECURSIVE ResultIdsFrom(_, _)
\* CollectionResults.message_ids: the ids of children i.. of the view, flattened
ResultIdsFrom(v, i) ==
    IF i > Len(v.children) THEN <<>>
    ELSE LET child == v.children[i]
         IN (IF child.is_collection THEN ResultIdsFrom(child, 1) ELSE <<child.message_id>>)
            \o ResultIdsFrom(v, i + 1)

ResultMessageIds(v) == ResultIdsFrom(v, 1)

\* ------------------------------------------------------------ constructors
\* a child pipeline is appended as it is
PipelineChildrenAppended(children) ==
    [i \in 1..Len(children) |->
        IF IsMessage(children[i]) THEN Copy(children[i]) ELSE children[i]]

RECURSIVE PipelineChildren(_)
\* the loop of pipeline.__init__: child pipelines are spliced in, messages copied
PipelineChildren(children) ==
    IF Len(children) = 0 THEN <<>>
    ELSE LET child == Head(children)
         IN (IF IsPipeline(child) THEN child.children
             ELSE IF IsGroup(child) THEN <<child>>
             ELSE <<Copy(child)>>) \o PipelineChildren(Tail(children))

\* pipeline.__init__(children): the new object
Pipeline(children, pipeline_id) ==
    [kind |-> "pipeline", id |-> pipeline_id, children |-> PipelineChildren(children),
     cancel_on_error |-> FALSE]

\* only the first child is checked
GroupRejectsFirst(children) == Len(children) > 0 /\ IsGroup(children[1])

\* the check of group.__init__: a child that is a group raises ValueError
GroupRejects(children) == \E i \in 1..Len(children) : IsGroup(children[i])

\* group.__init__(children, cancel_on_error=...): the new object
Group(children, group_id, cancel_on_error) ==
    [kind |-> "group", id |-> group_id, children |-> children,
     cancel_on_error |-> cancel_on_error]

\* ---------------------------------------------------------------- actions
\* op: the operation; args: the children handed to a constructor, or the object
\* the operation was called on; units, none: what build returned; logLen: the
\* number of broker and store calls made before the operation
Op(op, args, units, none) ==
    [op |-> op, args |-> args, units |-> units, none |-> none, logLen |-> Len(log),
     cancel_on_error |-> FALSE]

Top == stack[Len(stack)]

Args(k) == SubSeq(stack, Len(stack) - k + 1, Len(stack))

Rest(k) == SubSeq(stack, 1, Len(stack) - k)

\* the caller creates a message (actor.message())
NewMessage ==
    /\ phase = "compose" /\ Len(stack) < MaxKids /\ nextId <= MaxIds
    /\ stack' = Append(stack, Message(nextId))
    /\ nextId' = nextId + 1
    /\ lastOp' = Op("message", <<>>, <<>>, FALSE)
    /\ err' = ""
    /\ UNCHANGED <<log, phase, cancelBackend, states, now, view, getVars>>

\* p = pipeline(children): construction and the before_build_messages_pipeline
\* notification, which the registered MessageState middleware handles
ConstructPipeline(children, rest) ==
    LET p == Pipeline(children, nextId)
    IN /\ nextId <= MaxIds
       /\ stack' = Append(rest, p)
       /\ nextId' = nextId + 1
       /\ log' = Append(log, EmitPipeline(p))
       /\ states' = before_build_messages_pipeline(states, p.id, p.children)
       /\ lastOp' = Op("pipeline", children, <<>>, FALSE)
       /\ err' = ""
       /\ UNCHANGED <<phase, cancelBackend, now, view, getVars>>

NewPipeline ==
    /\ phase = "compose"
    /\ \E k \in 0..MaxKids :
          /\ k <= Len(stack)
          /\ ConstructPipeline(Args(k), Rest(k))

\* a | b: pipeline.__or__ and group.__or__
Or ==
    /\ phase = "compose" /\ Len(stack) >= 2
    /\ LET a == stack[Len(stack) - 1]
           b == Top
       IN /\ ~IsMessage(a)
          /\ ConstructPipeline(IF IsPipeline(a) THEN a.children \o <<b>> ELSE <<a, b>>,
                               Rest(2))

\* the cancel backend is never asked for
CancelBackendNotAsked(cancel_on_error, backend) == FALSE

\* if cancel_on_error: self.broker.get_cancel_backend(), which raises
\* NoCancelBackend when the broker has none
GetCancelBackendRaises(cancel_on_error, backend) == cancel_on_error /\ ~backend

\* g = group(children, cancel_on_error=...)
NewGroup ==
    /\ phase = "compose"
    /\ \E k \in 0..MaxKids, cancel_on_error \in BOOLEAN :
          /\ k <= Len(stack)
          /\ nextId <= MaxIds
          /\ lastOp' = [Op("group", Args(k), <<>>, FALSE)
                         EXCEPT !.cancel_on_error = cancel_on_error]
          /\ IF GroupRejects(Args(k))
             THEN /\ err' = "ValueError"
                  /\ UNCHANGED <<stack, nextId, getVars>>
             ELSE IF GetCancelBackendRaises(cancel_on_error, cancelBackend)
             THEN /\ err' = "NoCancelBackend"
                  /\ UNCHANGED <<stack, nextId, getVars>>
             ELSE /\ err' = ""
                  /\ stack' = Append(Rest(k), Group(Args(k), nextId, cancel_on_error))
                  /\ nextId' = nextId + 1
          /\ UNCHANGED <<log, phase, cancelBackend, states, now, view, getVars>>

RECURSIVE EnqueueAll(_, _, _)
\* broker.enqueue for each unit in turn: the after_enqueue hook of the recorder
EnqueueAll(store, units, time) ==
    IF Len(units) = 0 THEN store
    ELSE EnqueueAll(after_enqueue(store, Head(units), time), Tail(units), time)

\* self.build() called by the caller or by run, with no options
BuildTop ==
    IF IsPipeline(Top) THEN PipelineBuild(Top, EmptyDict, FALSE)
    ELSE With(GroupBuild(Top, EmptyDict, FALSE), LAMBDA r :
            [units |-> r.units, none |-> FALSE, last_options |-> EmptyDict,
             emits |-> r.emits, err |-> r.err])

\* x.build()
Build ==
    /\ phase = "compose" /\ Len(stack) >= 1 /\ ~IsMessage(Top)
    /\ \E r \in {BuildTop} :
          /\ log' = log \o r.emits
          /\ lastOp' = Op("build", <<Top>>, r.units, r.none)
          /\ err' = r.err
    /\ phase' = "done"
    /\ UNCHANGED <<stack, nextId, cancelBackend, states, now, view, getVars>>

\* only the first unit is enqueued
RunUnitsFirst(r) == IF Len(r.units) > 0 THEN <<r.units[1]>> ELSE <<>>

\* the units pipeline.run and group.run hand to broker.enqueue, in order
RunUnits(r) == r.units

\* x.run(): pipeline.run and group.run.  A pipeline without children builds None,
\* which broker.enqueue cannot take.
Run ==
    /\ phase = "compose" /\ Len(stack) >= 1 /\ ~IsMessage(Top)
    /\ \E r \in {BuildTop} :
       LET sent == IF r.err # "" \/ r.none THEN <<>> ELSE RunUnits(r)
       IN /\ log' = log \o r.emits \o [i \in 1..Len(sent) |-> Enqueued(sent[i])]
          /\ states' = EnqueueAll(states, sent, now)
          /\ lastOp' = Op("run", <<Top>>, r.units, r.none)
          /\ err' = IF r.err # "" THEN r.err ELSE IF r.none THEN "AttributeError" ELSE ""
    /\ phase' = "done"
    /\ UNCHANGED <<stack, nextId, cancelBackend, now, view, getVars>>

\* the nested lists are not opened
CancelIdsUnflattened(x) ==
    flatten([i \in 1..Len(message_ids(x)) |->
                IF message_ids(x)[i].is_list THEN IdList(<<>>) ELSE message_ids(x)[i]])

\* the argument of backend.cancel in pipeline.cancel and group.cancel
CancelIds(x) == flatten(message_ids(x))

\* x.cancel(): pipeline.cancel and group.cancel
Cancel ==
    /\ phase = "compose" /\ Len(stack) >= 1 /\ ~IsMessage(Top)
    /\ IF cancelBackend
       THEN /\ log' = Append(log, CancelCall(CancelIds(Top)))
            /\ err' = ""
       ELSE /\ err' = "NoCancelBackend"
            /\ UNCHANGED log
    /\ lastOp' = Op("cancel", <<Top>>, <<>>, FALSE)
    /\ phase' = "done"
    /\ UNCHANGED <<stack, nextId, cancelBackend, states, now, view, getVars>>

\* CollectionResults.from_message_ids(list(x.message_ids))
FromIds ==
    /\ phase = "compose" /\ Len(stack) >= 1 /\ ~IsMessage(Top)
    /\ \E r \in {from_message_ids(message_ids(Top))} :
          /\ view' = r.value
          /\ err' = IF r.ok THEN "" ELSE "IndexError"
    /\ lastOp' = Op("from_message_ids", <<Top>>, <<>>, FALSE)
    /\ phase' = "done"
    /\ UNCHANGED <<stack, nextId, log, cancelBackend, states, now, getVars>>

\* the first child is taken
FirstChild(children) == children[1]

\* pipeline.result: last_child = self.children[-1]
LastChild(children) == children[Len(children)]

RECURSIVE GroupResults(_)
RECURSIVE PipelineResult(_)
\* pipeline.result, the result of the last step: [ok, value], ok = FALSE when
\* self.children[-1] raises IndexError
PipelineResult(p) ==
    IF Len(p.children) = 0 THEN [ok |-> FALSE, value |-> Result(None)]
    ELSE LET last_child == LastChild(p.children)
         IN IF IsGroup(last_child) THEN GroupResults(last_child)
            ELSE [ok |-> TRUE, value |-> Result(last_child.id)]

\* group.results: CollectionResults([child.result for child in self.children])
GroupResults(g) ==
    LET children == [i \in 1..Len(g.children) |->
                        IF IsPipeline(g.children[i]) THEN PipelineResult(g.children[i])
                        ELSE [ok |-> TRUE, value |-> Result(g.children[i].id)]]
    IN IF \E i \in 1..Len(children) : ~children[i].ok
       THEN [ok |-> FALSE, value |-> CollectionResults(<<>>)]
       ELSE [ok |-> TRUE,
             value |-> CollectionResults([i \in 1..Len(children) |-> children[i].value])]

\* pipeline.results: element.results for a group step, element.result otherwise
PipelineResults(p) ==
    LET children == [i \in 1..Len(p.children) |->
                        IF IsGroup(p.children[i]) THEN GroupResults(p.children[i])
                        ELSE [ok |-> TRUE, value |-> Result(p.children[i].id)]]
    IN IF \E i \in 1..Len(children) : ~children[i].ok
       THEN [ok |-> FALSE, value |-> CollectionResults(<<>>)]
       ELSE [ok |-> TRUE,
             value |-> CollectionResults([i \in 1..Len(children) |-> children[i].value])]

ResultsOf(x) == IF IsGroup(x) THEN GroupResults(x) ELSE PipelineResults(x)

\* x.results
Results ==
    /\ phase = "compose" /\ Len(stack) >= 1 /\ ~IsMessage(Top)
    /\ \E r \in {ResultsOf(Top)} :
          /\ view' = r.value
          /\ err' = IF r.ok THEN "" ELSE "IndexError"
    /\ lastOp' = Op("results", <<Top>>, <<>>, FALSE)
    /\ phase' = "done"
    /\ UNCHANGED <<stack, nextId, log, cancelBackend, states, now, getVars>>

\* no get() is running
NoCall == [block |-> FALSE, timeout |-> None, raise_on_error |-> TRUE, start |-> None]

Init ==
    /\ stack = <<>>
    /\ nextId = 1
    /\ log = <<>>
    /\ lastOp = [op |-> "init", args |-> <<>>, units |-> <<>>, none |-> FALSE, logLen |-> 0,
                 cancel_on_error |-> FALSE]
    /\ err = ""
    /\ phase = "compose"
    /\ cancelBackend \in BOOLEAN
    /\ states = <<>>
    /\ now = 1
    /\ view = CollectionResults(<<>>)
    /\ lastHook = <<>>
    /\ call = NoCall
    /\ frames = <<>>
    /\ fetches = <<>>
    /\ stored = {}
    /\ returned = None

Next ==
    \/ NewMessage
    \/ NewPipeline
    \/ NewGroup
    \/ Or
    \/ Build
    \/ Run
    \/ Cancel
    \/ FromIds
    \/ Results

Spec == Init /\ [][Next]_vars

\* ------------------------------------------------- the lifecycle recorder
\* The broker calls the hooks of the MessageState middleware for the messages
\* HookMessages, in any order; the clock advances between two hooks.
MaxHooks == 4

HookMessages == {1, 2}

\* the message the broker passes to a hook: message 2 is a member of a group
HookUnit(m) ==
    [type |-> "Message", message_id |-> m,
     options |-> IF m = 2 THEN [group_info |-> [group_id |-> 8,
                                                 children_count |-> 1,
                                                 cancel_on_error |-> FALSE]]
                 ELSE EmptyDict]

Hook(m, name, store) ==
    /\ phase = "hooks" /\ now <= MaxHooks
    /\ states' = store
    /\ lastHook' = IF name = "" THEN lastHook ELSE [lastHook EXCEPT ![m] = name]
    /\ now' = now + 1
    /\ UNCHANGED <<stack, nextId, log, lastOp, err, phase, cancelBackend, view,
                   call, frames, fetches, stored, returned>>

AfterEnqueue ==
    \E m \in HookMessages : Hook(m, "after_enqueue", after_enqueue(states, HookUnit(m), now))

BeforeProcess ==
    \E m \in HookMessages : Hook(m, "before_process", before_process_message(states, m, now))

AfterProcess ==
    \E m \in HookMessages, exception \in BOOLEAN :
        Hook(m, IF exception THEN "after_process_failure" ELSE "after_process_success",
             after_process_message(states, m, exception, now))

AfterSkip ==
    \E m \in HookMessages : Hook(m, "after_skip", after_skip_message(states, m))

AfterCanceled ==
    \E m \in HookMessages : Hook(m, "after_cancel", after_message_canceled(states, m))

\* the notification of a pipeline of message 1, or of messages 1 and 2
BeforeBuildMessagesPipeline ==
    \E messages \in {<<Message(1)>>, <<Message(1), Message(2)>>} :
        Hook(1, "", before_build_messages_pipeline(states, 9, messages))

\* ------------------------------------------------------- the state listing
MaxPage == 2

\* State.as_dict: the record of a message as the listing returns it
as_dict(store, message_id) == Merge(store[message_id], [message_id |-> message_id])

RECURSIVE StatesFrom(_, _)
\* backend.get_states(), as dicts: the records of the store from id m on
StatesFrom(store, m) ==
    IF \A x \in DOMAIN store : x < m THEN <<>>
    ELSE (IF m \in DOMAIN store THEN <<as_dict(store, m)>> ELSE <<>>)
         \o StatesFrom(store, m + 1)

\* bool(item.get(column)): None and 0 are false
Truthy(item, column) == item[column] # None /\ item[column] # 0

RECURSIVE sorted(_, _, _)
\* sorted(items, key=itemgetter(column), reverse=reverse): a stable sort, the
\* last item inserted after the items that do not come after it
sorted(items, column, reverse) ==
    IF Len(items) = 0 THEN <<>>
    ELSE LET done == sorted(SubSeq(items, 1, Len(items) - 1), column, reverse)
             x == items[Len(items)]
             before(y) == IF reverse THEN y[column] >= x[column]
                          ELSE y[column] <= x[column]
             k == Cardinality({i \in 1..Len(done) : before(done[i])})
         IN SubSeq(done, 1, k) \o <<x>> \o SubSeq(done, k + 1, Len(done))

\* (item for item in data if item.get(column))
SortedPart(data, column) == SelectSeq(data, LAMBDA item : Truthy(item, column))

\* sort_dicts(data, column, reverse)
sort_dicts(data, column, reverse) ==
    LET data_none == SelectSeq(data, LAMBDA item : item[column] = None)
    IN sorted(SortedPart(data, column), column, reverse) \o data_none

\* dict_has(item, keys, value), for a search value that is a message id
dict_has(item, value) == item.message_id = value

\* data[offset : size + offset]
Slice(data, offset, size) ==
    IF offset >= Len(data) THEN <<>>
    ELSE SubSeq(data, offset + 1, IF size + offset <= Len(data) THEN size + offset
                                  ELSE Len(data))

\* the data of get_states before the page is cut: search, then sort
Listing(store, request) ==
    LET data == StatesFrom(store, 1)
        found == IF request.search_value # None
                 THEN SelectSeq(data, LAMBDA item : dict_has(item, request.search_value))
                 ELSE data
    IN IF request.sort_column # ""
       THEN sort_dicts(found, request.sort_column, request.sort_direction = "desc")
       ELSE found

\* GET /messages/states
GetStates ==
    /\ phase = "hooks"
    /\ \E sort_column \in {"", "priority", "enqueued_datetime"},
          sort_direction \in {"asc", "desc"},
          search_value \in {None, 1},
          offset \in 0..1 :
          /\ sort_column = "" => sort_direction = "asc"
          /\ LET request == [sort_column |-> sort_column,
                             sort_direction |-> sort_direction,
                             search_value |-> search_value,
                             offset |-> offset, size |-> MaxPage]
                 data == Listing(states, request)
             IN /\ lastOp' = Op("get_states", <<request>>, <<>>, FALSE)
                /\ returned' = [data |-> Slice(data, offset, MaxPage),
                                count |-> Len(data)]
    /\ phase' = "listed"
    /\ UNCHANGED <<stack, nextId, log, err, cancelBackend, states, now, view,
                   lastHook, call, frames, fetches, stored>>

InitState ==
    /\ stack = <<>>
    /\ nextId = 1
    /\ log = <<>>
    /\ lastOp = [op |-> "init", args |-> <<>>, units |-> <<>>, none |-> FALSE, logLen |-> 0,
                 cancel_on_error |-> FALSE]
    /\ err = ""
    /\ phase = "hooks"
    /\ cancelBackend = TRUE
    /\ states = <<>>
    /\ now = 1
    /\ view = CollectionResults(<<>>)
    /\ lastHook = [m \in HookMessages |-> ""]
    /\ call = NoCall
    /\ frames = <<>>
    /\ fetches = <<>>
    /\ stored = {}
    /\ returned = None

NextState ==
    \/ AfterEnqueue
    \/ BeforeProcess
    \/ AfterProcess
    \/ AfterSkip
    \/ AfterCanceled
    \/ BeforeBuildMessagesPipeline
    \/ GetStates

SpecState == InitState /\ [][NextState]_vars

\* ---------------------------------------------------- result collection
\* A caller builds a result view on the stack, then iterates get() on it to the
\* end. The clock only advances while a fetch blocks in the result store.
MaxNodes == 5

MaxTimeout == 2

\* the wait of the result store when no timeout is given, in milliseconds
DefaultTimeout == 10000

Max(a, b) == IF a >= b THEN a ELSE b

RECURSIVE Size(_)
\* the number of results and collections of a view
Size(v) ==
    LET from[i \in 1..(Len(v.children) + 1)] ==
            IF i > Len(v.children) THEN 0 ELSE Size(v.children[i]) + from[i + 1]
    IN 1 + from[1]

StackSize ==
    LET from[i \in 1..(Len(stack) + 1)] ==
            IF i > Len(stack) THEN 0 ELSE Size(stack[i]) + from[i + 1]
    IN from[1]

\* what get() yields: the outcome of a leaf, or the list of a nested collection
Outcome(message_id, kind) ==
    [is_list |-> FALSE, message_id |-> message_id, kind |-> kind, items |-> <<>>]

ListOutcome(items) ==
    [is_list |-> TRUE, message_id |-> None, kind |-> "list", items |-> items]

\* the first lines of get(): deadline = None; if timeout: deadline = now + timeout
Frame(children, timeout, time) ==
    [children |-> children, i |-> 1, message_ids |-> <<>>,
     deadline |-> IF timeout # None /\ timeout # 0 THEN time + timeout ELSE None,
     timeout |-> timeout, out |-> <<>>]

\* if deadline: timeout = max(0, deadline - now)
Remaining(f, time) ==
    IF f.deadline # None THEN Max(0, f.deadline - time) ELSE f.timeout

\* the list of the nested outcomes is spliced into the parent's sequence
YieldNestedFlattened(out, items) == out \o items

\* yield list(child.get(...))
YieldNested(out, items) == Append(out, ListOutcome(items))

\* The result store, get_results(ids, block, timeout, raise_on_error):
\* the possible [blocked, raised, outcomes] of one fetch. A blocking fetch waits
\* at most the timeout it is given (DefaultTimeout when None) and raises
\* ResultTimeout when it has waited that long in vain; a non-blocking fetch
\* raises ResultMissing; a stored error is raised or returned as a marker.
get_results(ids, block, timeout, raise_on_error) ==
    LET wait == IF timeout = None THEN DefaultTimeout ELSE timeout
        durations == IF block THEN {d \in {0, 1, wait} : d <= wait} ELSE {0}
        values(e) == [i \in 1..Len(ids) |->
                         Outcome(ids[i], IF i = e THEN "error" ELSE "value")]
    IN UNION {
         {[blocked |-> d, raised |-> "", outcomes |-> values(0)] : d \in durations},
         {[blocked |-> d,
           raised |-> IF raise_on_error THEN "ErrorStored" ELSE "",
           outcomes |-> IF raise_on_error THEN <<>> ELSE values(e)] :
              d \in {0}, e \in 1..Len(ids)},
         {[blocked |-> IF block THEN wait ELSE 0,
           raised |-> IF block THEN "ResultTimeout" ELSE "ResultMissing",
           outcomes |-> <<>>]} }

Fetched(ids, timeout, r) ==
    [message_ids |-> ids, timeout |-> timeout, at |-> now,
     blocked |-> r.blocked, depth |-> Len(frames), raised |-> r.raised]

\* the error of a fetch is caught, and the walk goes on
RaisedAndCaught(r) == FALSE

\* get() has no except clause: an error raised by a fetch leaves the generator,
\* and list(child.get(...)) passes it on to the enclosing call
Raised(r) == r.raised # ""

NewResult ==
    /\ phase = "view" /\ StackSize < MaxNodes /\ Len(stack) < MaxKids
    /\ stack' = Append(stack, Result(nextId))
    /\ nextId' = nextId + 1
    /\ UNCHANGED <<log, lastOp, err, phase, cancelBackend, states, now, view, getVars>>

NewCollection ==
    /\ phase = "view" /\ StackSize < MaxNodes
    /\ \E k \in 0..Len(stack) :
          stack' = Append(Rest(k), CollectionResults(Args(k)))
    /\ UNCHANGED <<nextId, log, lastOp, err, phase, cancelBackend, states, now, view,
                   getVars>>

\* the caller starts to iterate view.get(block, timeout, raise_on_error)
GetCall ==
    /\ phase = "view" /\ Len(stack) = 1 /\ Top.is_collection
    /\ \E block \in BOOLEAN, timeout \in {None} \cup 0..MaxTimeout,
          raise_on_error \in BOOLEAN :
          /\ call' = [block |-> block, timeout |-> timeout,
                      raise_on_error |-> raise_on_error, start |-> now]
          /\ frames' = <<Frame(Top.children, timeout, now)>>
    /\ view' = Top
    /\ phase' = "running"
    /\ UNCHANGED <<stack, nextId, log, lastOp, err, cancelBackend, states, now,
                   lastHook, stored, returned, fetches>>

TopFrame == frames[Len(frames)]

SetTopFrame(f) == [frames EXCEPT ![Len(frames)] = f]

\* one turn of the loop on a leaf child: message_ids.append(child.message_id)
LoopLeaf ==
    /\ phase = "running"
    /\ LET f == TopFrame
       IN /\ f.i <= Len(f.children)
          /\ ~f.children[f.i].is_collection
          /\ frames' = SetTopFrame([f EXCEPT !.timeout = Remaining(f, now),
                                             !.message_ids = Append(@, f.children[f.i].message_id),
                                             !.i = @ + 1])
    /\ UNCHANGED <<stack, nextId, log, lastOp, err, phase, cancelBackend, states, now,
                   view, lastHook, stored, returned, call, fetches>>

\* the ids stay pending after their fetch
FlushedAndKept(pending) == pending

\* message_ids = [] after the pending ids were fetched
Flushed(pending) == <<>>

\* one turn of the loop on a nested child: the pending ids are fetched with the
\* timeout computed at the top of the turn, then child.get is entered with that
\* same timeout
LoopNested ==
    /\ phase = "running"
    /\ LET f == TopFrame
       IN /\ f.i <= Len(f.children)
          /\ f.children[f.i].is_collection
          /\ \E timeout \in {Remaining(f, now)} :
                IF f.message_ids # <<>>
                THEN \E r \in get_results(f.message_ids, call.block, timeout,
                                          call.raise_on_error) :
                        /\ now' = now + r.blocked
                        /\ fetches' = Append(fetches, Fetched(f.message_ids, timeout, r))
                        /\ IF Raised(r)
                           THEN /\ phase' = "raised" /\ err' = r.raised
                                /\ frames' = SetTopFrame([f EXCEPT !.timeout = timeout])
                           ELSE /\ frames' = Append(
                                      SetTopFrame([f EXCEPT !.timeout = timeout,
                                                            !.message_ids = Flushed(@),
                                                            !.out = @ \o r.outcomes]),
                                      Frame(f.children[f.i].children, timeout,
                                            now + r.blocked))
                                /\ UNCHANGED <<phase, err>>
                ELSE /\ frames' = Append(SetTopFrame([f EXCEPT !.timeout = timeout]),
                                         Frame(f.children[f.i].children, timeout, now))
                     /\ UNCHANGED <<now, fetches, phase, err>>
    /\ UNCHANGED <<stack, nextId, log, lastOp, cancelBackend, states, view, lastHook, stored, returned,
                   call>>

\* the end of the loop: the pending ids are fetched, and the generator ends; a
\* nested call's output becomes one element of its caller
LoopEnd ==
    /\ phase = "running"
    /\ LET f == TopFrame
       IN /\ f.i > Len(f.children)
          /\ \E r \in IF f.message_ids # <<>>
                      THEN get_results(f.message_ids, call.block, f.timeout,
                                       call.raise_on_error)
                      ELSE {[blocked |-> 0, raised |-> "", outcomes |-> <<>>]} :
                /\ now' = now + r.blocked
                /\ fetches' = IF f.message_ids # <<>>
                              THEN Append(fetches, Fetched(f.message_ids, f.timeout, r))
                              ELSE fetches
                /\ IF Raised(r)
                   THEN /\ phase' = "raised" /\ err' = r.raised
                        /\ frames' = frames
                   ELSE \E out \in {f.out \o r.outcomes} :
                        IF Len(frames) = 1
                        THEN /\ phase' = "done"
                             /\ frames' = <<[f EXCEPT !.message_ids = <<>>, !.out = out]>>
                             /\ err' = err
                        ELSE LET parent == frames[Len(frames) - 1]
                             IN /\ frames' = [SubSeq(frames, 1, Len(frames) - 1)
                                                EXCEPT ![Len(frames) - 1] =
                                                   [parent EXCEPT !.out = YieldNested(@, out),
                                                                  !.i = @ + 1]]
                                /\ UNCHANGED <<phase, err>>
    /\ UNCHANGED <<stack, nextId, log, lastOp, cancelBackend, states, view, lastHook, stored, returned,
                   call>>

\* the result store, get_status(message_ids): how many of the ids have a result
get_status(ids, results) == Cardinality({i \in 1..Len(ids) : ids[i] \in results})

StatusCall(ids) == Event("get_status", None, ids, <<>>)

\* only the leaves that are direct children are asked for
StatusIdsOfChildren(v) ==
    LET from[i \in 1..(Len(v.children) + 1)] ==
            IF i > Len(v.children) THEN <<>>
            ELSE (IF v.children[i].is_collection THEN <<>>
                  ELSE <<v.children[i].message_id>>) \o from[i + 1]
    IN from[1]

\* the argument of get_status in completed_count: self.message_ids
StatusIds(v) == ResultMessageIds(v)

\* CollectionResults.__len__
ViewLen(v) == Len(ResultMessageIds(v))

\* view.completed_count, the result store holding results for any of the ids
\* created so far
CompletedCount ==
    /\ phase = "view" /\ Len(stack) = 1 /\ Top.is_collection
    /\ \E results \in SUBSET (1..(nextId - 1)) :
          /\ stored' = results
          /\ returned' = get_status(StatusIds(Top), results)
    /\ log' = Append(log, StatusCall(StatusIds(Top)))
    /\ lastOp' = Op("completed_count", <<Top>>, <<>>, FALSE)
    /\ view' = Top
    /\ phase' = "asked"
    /\ UNCHANGED <<stack, nextId, err, cancelBackend, states, now, lastHook, call,
                   frames, fetches>>

\* view.completed: self.completed_count == len(self)
Completed ==
    /\ phase = "view" /\ Len(stack) = 1 /\ Top.is_collection
    /\ \E results \in SUBSET (1..(nextId - 1)) :
          /\ stored' = results
          /\ returned' = (get_status(StatusIds(Top), results) = ViewLen(Top))
    /\ log' = Append(log, StatusCall(StatusIds(Top)))
    /\ lastOp' = Op("completed", <<Top>>, <<>>, FALSE)
    /\ view' = Top
    /\ phase' = "asked"
    /\ UNCHANGED <<stack, nextId, err, cancelBackend, states, now, lastHook, call,
                   frames, fetches>>

InitGet ==
    /\ stack = <<>>
    /\ nextId = 1
    /\ log = <<>>
    /\ lastOp = [op |-> "init", args |-> <<>>, units |-> <<>>, none |-> FALSE, logLen |-> 0,
                 cancel_on_error |-> FALSE]
    /\ err = ""
    /\ phase = "view"
    /\ cancelBackend = TRUE
    /\ states = <<>>
    /\ now = 1
    /\ view = CollectionResults(<<>>)
    /\ lastHook = <<>>
    /\ call = NoCall
    /\ frames = <<>>
    /\ fetches = <<>>
    /\ stored = {}
    /\ returned = None

NextGet ==
    \/ NewResult
    \/ NewCollection
    \/ GetCall
    \/ LoopLeaf
    \/ LoopNested
    \/ LoopEnd
    \/ CompletedCount
    \/ Completed

SpecGet == InitGet /\ [][NextGet]_vars

\* ================================================================ claims
\* ------------------------------------------------- reading the source tree
RECURSIVE LeafIdsFrom(_, _)
\* the ids of all messages under children i.. of x, depth first
LeafIdsFrom(x, i) ==
    IF i > Len(x.children) THEN <<>>
    ELSE (IF IsMessage(x.children[i]) THEN <<x.children[i].id>>
          ELSE LeafIdsFrom(x.children[i], 1)) \o LeafIdsFrom(x, i + 1)

LeafIds(x) == IF IsMessage(x) THEN <<x.id>> ELSE LeafIdsFrom(x, 1)

RECURSIVE EntryIdsFrom(_, _)
RECURSIVE EntryIds(_)
\* the ids of the messages a composition starts with: a message itself, the
\* entries of every child of a group, the entries of the first step of a pipeline
EntryIds(x) ==
    IF IsMessage(x) THEN <<x.id>>
    ELSE IF IsGroup(x) THEN EntryIdsFrom(x, 1)
    ELSE IF Len(x.children) = 0 THEN <<>>
    ELSE EntryIds(x.children[1])

EntryIdsFrom(x, i) ==
    IF i > Len(x.children) THEN <<>>
    ELSE EntryIds(x.children[i]) \o EntryIdsFrom(x, i + 1)

RECURSIVE Nodes(_)
\* x and every composition or message inside it
Nodes(x) == {x} \cup UNION {Nodes(x.children[i]) : i \in 1..Len(x.children)}

UnitIds(units) == [i \in 1..Len(units) |-> units[i].message_id]

Range(seq) == {seq[i] : i \in 1..Len(seq)}

\* the object the last operation was called on
Target == lastOp.args[1]

\* the calls the last operation made, in order
NewCalls == SubSeq(log, lastOp.logLen + 1, Len(log))

RECURSIVE ChainEnds(_)
\* the dict forms at the end of the pipe_target chains that start at the dicts ds
ChainEnds(ds) ==
    IF Len(ds) = 0 THEN <<>>
    ELSE (IF HasKey(Head(ds).options, "pipe_target")
          THEN ChainEnds(Head(ds).options["pipe_target"])
          ELSE <<Head(ds)>>) \o ChainEnds(Tail(ds))

\* a group of the tree x has a pipeline without steps among its children
\* (group.build then fails on `messages += None`)
HasEmptyPipelineChild(x) ==
    \E g \in Nodes(x) :
        /\ IsGroup(g)
        /\ \E i \in 1..Len(g.children) :
              IsPipeline(g.children[i]) /\ Len(g.children[i].children) = 0

\* ------------------------------------------------------------------- C2
\* the ids of the built units of one pipeline step whose members are messages
StepIds(child) == [i \in 1..Len(LeafIds(child)) |-> LeafIds(child)[i]]

\* every group step of pipeline p holds messages only
PlainSteps(p) ==
    \A i \in 1..Len(p.children) :
        \A j \in 1..Len(p.children[i].children) : IsMessage(p.children[i].children[j])

RECURSIVE PipeTargetsFrom(_, _, _)
\* ds are the built units of step i of p: they are the units of that step, and
\* before the last step each carries as pipe_target the built units of step i+1
PipeTargetsFrom(p, i, ds) ==
    /\ UnitIds(ds) = StepIds(p.children[i])
    /\ i < Len(p.children) =>
          \A k \in 1..Len(ds) :
              /\ HasKey(ds[k].options, "pipe_target")
              /\ PipeTargetsFrom(p, i + 1, ds[k].options["pipe_target"])

\* C2 (as claimed): build() of a pipeline of N steps (messages and groups of
\* messages, groups of zero members included) returns the built units of step 1,
\* and every built unit of step i < N carries pipe_target = the serialized built
\* units of step i+1.
C2_PipeTargetOfEveryStep ==
    (/\ lastOp.op = "build" /\ IsPipeline(Target) /\ PlainSteps(Target)
     /\ Len(Target.children) > 0)
    => /\ ~lastOp.none
       /\ err = ""
       /\ PipeTargetsFrom(Target, 1, AsDicts(lastOp.units))

\* ------------------------------------------------------------------- C3
\* C3 (as claimed): build() of a group returns one unit per message child and the
\* entry units of every pipeline child, and every unit returned carries
\* group_info with the group's id.
C3_EveryReturnedUnitHasGroupInfo ==
    (lastOp.op = "build" /\ IsGroup(Target) /\ err = "")
    => /\ UnitIds(lastOp.units) = EntryIds(Target)
       /\ \A i \in 1..Len(lastOp.units) :
             /\ HasKey(lastOp.units[i].options, "group_info")
             /\ lastOp.units[i].options["group_info"].group_id = Target.id

\* C3 (amended): build() of a group returns, in child order, one unit per message
\* child and the entry units of every pipeline child; the group_info with the
\* group's id is carried by the unit at the end of every pipe_target chain of a
\* returned unit (the unit itself when it has no pipe_target, the last step of a
\* pipeline child otherwise); build fails with TypeError exactly when a group of
\* the tree holds a pipeline without steps.
C3_GroupBuild ==
    (lastOp.op = "build" /\ IsGroup(Target))
    => /\ (err = "TypeError") <=> HasEmptyPipelineChild(Target)
       /\ err \in {"", "TypeError"}
       /\ err = "" =>
            /\ UnitIds(lastOp.units) = EntryIds(Target)
            /\ LET ends == ChainEnds(AsDicts(lastOp.units))
               IN \A i \in 1..Len(ends) :
                     /\ HasKey(ends[i].options, "group_info")
                     /\ ends[i].options["group_info"].group_id = Target.id

\* C3 witness: a group with a message child and a pipeline child of two steps
\* has been built
C3_Witness ==
    /\ lastOp.op = "build" /\ IsGroup(Target) /\ err = ""
    /\ Len(Target.children) = 2
    /\ IsPipeline(Target.children[1]) /\ Len(Target.children[1].children) = 2
    /\ IsMessage(Target.children[2])
    /\ Len(lastOp.units) = 2

\* ------------------------------------------------------------------- C4
RECURSIVE LastIdsFrom(_, _)
\* the ids reached from children i.. of x when the walk takes every child of x
\* but, inside a child composition, only its last child
LastIdsFrom(x, i) ==
    IF i > Len(x.children) THEN <<>>
    ELSE LET c == x.children[i]
             last == c.children[Len(c.children)]
         IN (IF IsMessage(c) THEN <<c.id>>
             ELSE IF IsMessage(last) THEN <<last.id>>
             ELSE LastIdsFrom(last, 1)) \o LastIdsFrom(x, i + 1)

RECURSIVE LastWalkFails(_)
\* that walk reaches a child composition without children
LastWalkFails(x) ==
    \E i \in 1..Len(x.children) :
        LET c == x.children[i]
        IN /\ ~IsMessage(c)
           /\ \/ Len(c.children) = 0
              \/ /\ ~IsMessage(c.children[Len(c.children)])
                 /\ LastWalkFails(c.children[Len(c.children)])

\* every child composition inside x has exactly one child
RECURSIVE SingleChildren(_)
SingleChildren(x) ==
    \A i \in 1..Len(x.children) :
        ~IsMessage(x.children[i]) =>
            /\ Len(x.children[i].children) = 1
            /\ SingleChildren(x.children[i])

\* C4 (as claimed): the view built by from_message_ids from a composition's own
\* message_ids flattens to the depth-first sequence of all leaf ids of the tree.
C4_RoundTripAllLeaves ==
    (lastOp.op = "from_message_ids" /\ err = "")
    => ResultMessageIds(view) = LeafIds(Target)

\* C4 (amended): the view flattens to the ids the walk reaches that takes every
\* top-level child but only the last element of every nested list: a subsequence
\* of the depth-first traversal, equal to it when every nested list has one
\* element; from_message_ids fails with IndexError exactly when that walk
\* reaches an empty nested list.
C4_RoundTripLastElements ==
    lastOp.op = "from_message_ids"
    => /\ (err = "IndexError") <=> LastWalkFails(Target)
       /\ err \in {"", "IndexError"}
       /\ err = "" =>
            /\ ResultMessageIds(view) = LastIdsFrom(Target, 1)
            /\ SingleChildren(Target) => ResultMessageIds(view) = LeafIds(Target)

\* C4 witness: the round trip was made for a group that holds a pipeline of two
\* messages, whose first message the view does not hold
C4_Witness ==
    /\ lastOp.op = "from_message_ids" /\ err = ""
    /\ IsGroup(Target) /\ Len(Target.children) >= 1
    /\ IsPipeline(Target.children[1]) /\ Len(Target.children[1].children) = 2
    /\ Len(ResultMessageIds(view)) < Len(LeafIds(Target))

\* ------------------------------------------------------------------- C7
\* C7: constructing a group one of whose children is a group fails with
\* ValueError, and it makes no broker call (no notification, no enqueue), writes
\* no state and creates no object.
C7_GroupOfGroupsRejected ==
    [][(lastOp'.op = "group" /\ \E i \in 1..Len(lastOp'.args) : IsGroup(lastOp'.args[i]))
        => /\ err' = "ValueError"
           /\ log' = log
           /\ states' = states
           /\ stack' = stack
           /\ nextId' = nextId]_vars

\* C7 witness: a group constructor whose second child is a group has failed,
\* after earlier operations made broker calls
C7_Witness ==
    /\ lastOp.op = "group" /\ err = "ValueError"
    /\ Len(lastOp.args) = 2 /\ IsMessage(lastOp.args[1]) /\ IsGroup(lastOp.args[2])
    /\ Len(log) > 0

\* ------------------------------------------------------------------- C8
RECURSIVE ItemsOf(_)
\* the messages and groups of constructor arguments, in order, pipelines opened
\* to any depth
ItemsOf(children) ==
    IF Len(children) = 0 THEN <<>>
    ELSE (IF IsPipeline(Head(children)) THEN ItemsOf(Head(children).children)
          ELSE <<Head(children)>>) \o ItemsOf(Tail(children))

\* C8: no pipeline at any depth of an object the caller holds has a pipeline
\* among its children, and the children of a pipeline just constructed (by
\* pipeline(...) or by |) are the messages and groups of its arguments in order.
C8_PipelineFlattened ==
    /\ \A k \in 1..Len(stack) : \A x \in Nodes(stack[k]) :
          IsPipeline(x) => \A i \in 1..Len(x.children) : ~IsPipeline(x.children[i])
    /\ lastOp.op = "pipeline" =>
          /\ IsPipeline(Top)
          /\ Top.children = ItemsOf(lastOp.args)

\* C8 witness: a pipeline was constructed from a pipeline of two steps and one
\* more child
C8_Witness ==
    /\ lastOp.op = "pipeline" /\ Len(lastOp.args) = 2
    /\ IsPipeline(lastOp.args[1]) /\ Len(lastOp.args[1].children) = 2
    /\ Len(Top.children) = 3

\* ------------------------------------------------------------------- C9
\* the units handed to broker.enqueue by the last operation, in order
EnqueuedUnits ==
    LET calls == NewCalls
        RECURSIVE Pick(_)
        Pick(i) == IF i > Len(calls) THEN <<>>
                   ELSE (IF calls[i].op = "enqueue" THEN calls[i].unit ELSE <<>>)
                        \o Pick(i + 1)
    IN Pick(1)

\* the ids of the messages of the steps of pipeline p after the first
LaterStepIds(p) ==
    UNION {Range(LeafIds(p.children[i])) : i \in 2..Len(p.children)}

\* C9: run() of a group enqueues the units its build returns, each once; run()
\* of a pipeline enqueues the built units of its first step and no unit of a
\* later step.
C9_RunEnqueues ==
    lastOp.op = "run"
    => /\ EnqueuedUnits = (IF err = "" THEN lastOp.units ELSE <<>>)
       /\ err = "" =>
            /\ UnitIds(EnqueuedUnits) = EntryIds(Target)
            /\ Cardinality(Range(UnitIds(EnqueuedUnits))) = Len(EnqueuedUnits)
            /\ IsPipeline(Target) =>
                  Range(UnitIds(EnqueuedUnits)) \cap LaterStepIds(Target) = {}

\* C9 witness: a pipeline whose first step is a group of two messages and which
\* has a second step was run
C9_Witness ==
    /\ lastOp.op = "run" /\ err = "" /\ IsPipeline(Target)
    /\ Len(Target.children) = 2
    /\ IsGroup(Target.children[1]) /\ Len(Target.children[1].children) = 2
    /\ Len(EnqueuedUnits) = 2

\* ------------------------------------------------------------------ C10
\* C10: cancel() of a pipeline or group, the broker having a cancel backend,
\* makes one call to the cancel store whose argument holds the ids of all leaf
\* messages of the tree, and no other call; it writes no state record.  (Without
\* a cancel backend it raises NoCancelBackend and makes no call.)
C10_CancelOnce ==
    [][lastOp'.op = "cancel"
        => /\ states' = states
           /\ stack' = stack
           /\ IF cancelBackend
              THEN /\ err' = ""
                   /\ Len(log') = Len(log) + 1
                   /\ SubSeq(log', 1, Len(log)) = log
                   /\ log'[Len(log')].op = "cancel"
                   /\ log'[Len(log')].ids = LeafIds(Top)
              ELSE /\ err' = "NoCancelBackend"
                   /\ log' = log]_vars

\* C10 witness: a tree with a group inside a pipeline inside a group was
\* cancelled, after state records had been written
C10_Witness ==
    /\ lastOp.op = "cancel" /\ err = ""
    /\ IsGroup(Target) /\ Len(Target.children) >= 1
    /\ IsPipeline(Target.children[1]) /\ Len(Target.children[1].children) >= 1
    /\ IsGroup(Target.children[1].children[1])
    /\ Len(Target.children[1].children[1].children) >= 1
    /\ DOMAIN states # {}
    /\ log[Len(log)].op = "cancel"

\* ------------------------------------------------------------------- C6
\* the state name each state-changing hook writes
NameOfHook(hook) ==
    CASE hook = "after_enqueue" -> "Pending"
      [] hook = "before_process" -> "Started"
      [] hook = "after_process_success" -> "Success"
      [] hook = "after_process_failure" -> "Failure"
      [] hook = "after_skip" -> "Skipped"
      [] hook = "after_cancel" -> "Canceled"

\* C6: after any sequence of hooks, in any order, the stored state name of a
\* message is the one of the state-changing hook called last for it (a message
\* only a before-build notification wrote has none), and every hook can be
\* called in every state: none is rejected.
C6_LastHookNamesState ==
    /\ \A m \in DOMAIN lastHook :
          IF lastHook[m] = ""
          THEN m \in DOMAIN states => states[m].state_name = "None"
          ELSE /\ m \in DOMAIN states
               /\ states[m].state_name = NameOfHook(lastHook[m])
    /\ (phase = "hooks" /\ now <= MaxHooks) =>
          /\ ENABLED AfterEnqueue
          /\ ENABLED BeforeProcess
          /\ ENABLED AfterProcess
          /\ ENABLED AfterSkip
          /\ ENABLED AfterCanceled

\* C6 witness: after-enqueue came after the message had been processed and
\* canceled, and the state name is Pending again
C6_Witness ==
    /\ 1 \in DOMAIN states
    /\ lastHook[1] = "after_enqueue"
    /\ states[1].end_datetime # None
    /\ states[1].end_datetime < states[1].enqueued_datetime
    /\ states[1].state_name = "Pending"

\* ------------------------------------------------------------------- C1
\* the time the call has spent blocked in the result store
BlockedTotal ==
    LET from[i \in 1..(Len(fetches) + 1)] ==
            IF i > Len(fetches) THEN 0 ELSE fetches[i].blocked + from[i + 1]
    IN from[1]

\* C1: a call get(block=True, timeout=T) with T > 0, on any result tree, has at
\* every moment, and so when it finishes or fails, spent no more than T blocked
\* in the result store, each fetch blocking for up to the timeout it is given.
C1_BlockedWithinTimeout ==
    (phase \in {"running", "done", "raised"} /\ call.block
        /\ call.timeout # None /\ call.timeout > 0)
    => BlockedTotal <= call.timeout

\* ------------------------------------------------------------------- C5
RECURSIVE OneElementPerChild(_, _)
\* out has one element per child, in child order: the outcome of the leaf, or
\* the list of the nested collection's own output
OneElementPerChild(out, children) ==
    /\ Len(out) = Len(children)
    /\ \A i \in 1..Len(children) :
          IF children[i].is_collection
          THEN /\ out[i].is_list
               /\ OneElementPerChild(out[i].items, children[i].children)
          ELSE /\ ~out[i].is_list
               /\ out[i].message_id = children[i].message_id

\* C5: when every fetch succeeded, get() has yielded exactly one element per
\* top-level child, in child order: a leaf's outcome at the leaf's position, and
\* for a nested collection one list holding that child's own get() output,
\* recursively, never flattened into the parent sequence.
C5_OneElementPerChild ==
    phase = "done" => OneElementPerChild(frames[1].out, view.children)

\* C5 witness: get() has finished on [leaf, [leaf, leaf]] and yielded two
\* elements, the second a list of two
C5_Witness ==
    /\ phase = "done"
    /\ Len(view.children) = 2
    /\ ~view.children[1].is_collection
    /\ view.children[2].is_collection
    /\ Len(view.children[2].children) = 2
    /\ Len(frames[1].out) = 2
    /\ frames[1].out[2].is_list
    /\ Len(frames[1].out[2].items) = 2
    /\ Len(fetches) = 2

\* ------------------------------------------------------------------ C11
RECURSIVE OutcomeIds(_)
\* the ids of the leaf outcomes of a sequence of outcomes, in order
OutcomeIds(out) ==
    IF out = <<>> THEN <<>>
    ELSE (IF Head(out).is_list THEN OutcomeIds(Head(out).items)
          ELSE <<Head(out).message_id>>) \o OutcomeIds(Tail(out))

\* the ids of the outcomes yielded so far, by the call and its nested calls
YieldedIds ==
    LET from[i \in 1..(Len(frames) + 1)] ==
            IF i > Len(frames) THEN <<>> ELSE OutcomeIds(frames[i].out) \o from[i + 1]
    IN from[1]

\* the ids of the fetches that succeeded, in the order of the fetches
FetchedIds ==
    LET from[i \in 1..(Len(fetches) + 1)] ==
            IF i > Len(fetches) THEN <<>>
            ELSE (IF fetches[i].raised = "" THEN fetches[i].message_ids ELSE <<>>)
                 \o from[i + 1]
    IN from[1]

\* C11: when a fetch fails during get() (ErrorStored, ResultMissing or
\* ResultTimeout), the error leaves the sequence at that fetch: the outcomes
\* yielded are exactly those of the fetches that succeeded before it, nothing is
\* yielded after it, and the failing fetch is the last one issued to the store.
C11_ErrorLeavesAtFailingFetch ==
    /\ \A i \in 1..(Len(fetches) - 1) : fetches[i].raised = ""
    /\ YieldedIds = FetchedIds
    /\ phase = "raised" <=>
          (fetches # <<>> /\ fetches[Len(fetches)].raised # "")
    /\ phase = "raised" =>
          /\ err = fetches[Len(fetches)].raised
          /\ OneElementPerChild(frames[1].out,
                                SubSeq(view.children, 1, Len(frames[1].out)))

\* C11 witness: the fetch of a nested call failed after the top-level call had
\* yielded an outcome, and a leaf after the nested child was never fetched
C11_Witness ==
    /\ phase = "raised"
    /\ Len(frames) = 2
    /\ Len(fetches) = 2
    /\ Len(frames[1].out) = 1
    /\ frames[1].i = 2
    /\ Len(view.children) = 3
    /\ ~view.children[3].is_collection

\* ------------------------------------------------------------------ C12
\* C12: when a pipeline has been constructed, the before-build-pipeline hook has
\* written, for every message of the pipeline, the members of its group steps
\* included, a state record that carries the pipeline id, and no state name.
C12_PipelineIdOnEveryMessage ==
    (lastOp.op = "pipeline" /\ err = "") =>
        \A id \in Range(LeafIds(Top)) :
            /\ id \in DOMAIN states
            /\ states[id].pipeline_id = Top.id
            /\ states[id].state_name = "None"

\* ------------------------------------------------------------------ C13
\* the before-build notification of composition x is in the log, before every
\* unit the last operation enqueued
NotifiedBeforeEnqueue(x) ==
    \E j \in 1..Len(log) :
        /\ log[j].op = (IF IsPipeline(x) THEN "before_build_messages_pipeline"
                        ELSE "before_build_group_pipeline")
        /\ log[j].id = x.id
        /\ \A k \in (lastOp.logLen + 1)..Len(log) : log[k].op = "enqueue" => j < k

\* the groups that are a step of a pipeline of the tree x
GroupSteps(x) ==
    {g \in Nodes(x) : IsGroup(g) /\ \E p \in Nodes(x) :
                          IsPipeline(p) /\ g \in Range(p.children)}

\* C13 as stated: for every pipeline and every group that is run, standalone or
\* inside another composition, a before-build notification carrying its id has
\* been emitted before any of its units is enqueued.
C13_EveryCompositionNotified ==
    (lastOp.op = "run" /\ err = "") =>
        \A x \in Nodes(Target) : ~IsMessage(x) => NotifiedBeforeEnqueue(x)

\* C13 amended: when a composition has been run, every pipeline of its tree and
\* every group that is a step of a pipeline of its tree has had its before-build
\* notification emitted before any unit was enqueued; a group that is run
\* standalone has no notification at all.
C13_PipelinesAndGroupStepsNotified ==
    (lastOp.op = "run" /\ err = "") =>
        /\ \A x \in Nodes(Target) : IsPipeline(x) => NotifiedBeforeEnqueue(x)
        /\ \A g \in GroupSteps(Target) : NotifiedBeforeEnqueue(g)
        /\ IsGroup(Target) =>
              \A j \in 1..Len(log) :
                  ~(log[j].op = "before_build_group_pipeline" /\ log[j].id = Target.id)

\* C13 witness: a pipeline whose first step is a group was run, and the units of
\* the group were enqueued after the notification of the group
C13_Witness ==
    /\ lastOp.op = "run" /\ err = "" /\ IsPipeline(Target)
    /\ Len(Target.children) = 2
    /\ IsGroup(Target.children[1])
    /\ Len(EnqueuedUnits) = 2
    /\ NotifiedBeforeEnqueue(Target.children[1])
    /\ log[Len(log)].op = "enqueue"

\* ------------------------------------------------------------------ C14
\* C14: a call get(block=True) without a timeout (and so wait(), which is that
\* call iterated to its end) spends in total no more than the default budget of
\* 10 seconds blocked in the result store, however many fetches the tree needs.
C14_DefaultBudgetBoundsCall ==
    (phase \in {"running", "done", "raised"} /\ call.block /\ call.timeout = None)
    => BlockedTotal <= DefaultTimeout

\* ------------------------------------------------------------------ C15
RECURSIVE ViewLeaves(_)
\* the ids of the leaves of a view, whatever its nesting
ViewLeaves(v) ==
    IF ~v.is_collection THEN {v.message_id}
    ELSE UNION {ViewLeaves(v.children[i]) : i \in 1..Len(v.children)}

\* C15: completed_count makes exactly one status query to the result store,
\* over the full flattened list of the leaf ids, and returns its answer, which
\* is the number of leaves the store holds a result for; completed makes the
\* same single query and is true exactly when that number is the number of
\* leaves. Both values depend on the set of leaf ids only, not on the nesting.
C15_OneStatusQuery ==
    lastOp.op \in {"completed_count", "completed"} =>
        /\ Len(NewCalls) = 1
        /\ NewCalls[1].op = "get_status"
        /\ Range(NewCalls[1].ids) = ViewLeaves(view)
        /\ Len(NewCalls[1].ids) = Cardinality(ViewLeaves(view))
        /\ fetches = <<>>
        /\ lastOp.op = "completed_count" =>
              returned = Cardinality(ViewLeaves(view) \cap stored)
        /\ lastOp.op = "completed" =>
              returned = (Cardinality(ViewLeaves(view) \cap stored)
                            = Cardinality(ViewLeaves(view)))

\* C15 witness: completed is true on a view with a nested collection, all three
\* leaves having a result
C15_Witness ==
    /\ lastOp.op = "completed"
    /\ returned = TRUE
    /\ Len(view.children) = 2
    /\ view.children[2].is_collection
    /\ Cardinality(ViewLeaves(view)) = 3
    /\ stored = ViewLeaves(view)

\* ------------------------------------------------------------------ C16
\* C16: constructing a group with cancel_on_error=True when the broker has no
\* cancel backend fails with NoCancelBackend at construction: no object is
\* created, no broker call is made and no state is written, so that no group
\* with the flag exists whose units could be built or enqueued. With
\* cancel_on_error=False the construction succeeds whether or not the broker
\* has a cancel backend.
C16_NoCancelBackendAtConstruction ==
    [][(lastOp'.op = "group" /\ ~GroupRejects(lastOp'.args)) =>
          /\ (lastOp'.cancel_on_error /\ ~cancelBackend) =>
                /\ err' = "NoCancelBackend"
                /\ stack' = stack /\ nextId' = nextId
                /\ log' = log /\ states' = states
          /\ ~(lastOp'.cancel_on_error /\ ~cancelBackend) =>
                /\ err' = ""
                /\ IsGroup(stack'[Len(stack')])
                /\ stack'[Len(stack')].cancel_on_error = lastOp'.cancel_on_error
          /\ \A i \in 1..Len(stack') : \A x \in Nodes(stack'[i]) :
                (IsGroup(x) /\ x.cancel_on_error) => cancelBackend]_vars

\* C16 witness: the broker has no cancel backend, a group was constructed with
\* cancel_on_error=False, and then the construction of a group of a message
\* with cancel_on_error=True failed
C16_Witness ==
    /\ ~cancelBackend
    /\ lastOp.op = "group" /\ lastOp.cancel_on_error /\ err = "NoCancelBackend"
    /\ Len(lastOp.args) = 1 /\ IsMessage(lastOp.args[1])
    /\ Len(stack) = 2 /\ IsGroup(stack[1]) /\ ~stack[1].cancel_on_error

\* ------------------------------------------------------------------ C17
\* the enqueue fields of the record of message m
EnqueueFields(store, m) ==
    <<store[m].enqueued_datetime, store[m].priority, store[m].group_id>>

HasEnqueueRecord(m) == m \in DOMAIN states /\ states[m].enqueued_datetime # None

\* C17 as stated: once after-enqueue has recorded a message, no later hook for
\* that message changes the enqueued timestamp, the priority or the group id
\* of its record.
C17_EnqueueFieldsNeverReplaced ==
    [][\A m \in HookMessages :
          HasEnqueueRecord(m) => EnqueueFields(states', m) = EnqueueFields(states, m)]_vars

\* C17 amended: once after-enqueue has recorded a message, a later hook for that
\* message leaves the enqueued timestamp, the priority and the group id of its
\* record as they are, unless it is after-enqueue again, which writes its own
\* time as the enqueued timestamp and the same priority and group id; the state
\* name is that of the latest state-changing hook.
C17_EnqueueFieldsKept ==
    [][\A m \in HookMessages :
          HasEnqueueRecord(m) =>
             /\ \/ EnqueueFields(states', m) = EnqueueFields(states, m)
                \/ /\ lastHook'[m] = "after_enqueue"
                   /\ EnqueueFields(states', m)
                        = <<now, states[m].priority, states[m].group_id>>
             /\ states'[m].state_name = NameOfHook(lastHook'[m])]_vars

\* C17 witness: message 2, a member of a group, was enqueued, started and
\* processed, and its record still has the time, priority and group of enqueue
C17_Witness ==
    /\ 2 \in DOMAIN states
    /\ states[2].state_name = "Success"
    /\ states[2].enqueued_datetime = 1
    /\ states[2].started_datetime = 2
    /\ states[2].end_datetime = 3
    /\ states[2].priority = ActorPriority
    /\ states[2].group_id = HookUnit(2).options["group_info"].group_id

\* ------------------------------------------------------------------ C18
\* C18: in a get() call with a timeout, every fetch issued to the result store,
\* by the call or by a nested call, is given the time that remains to the
\* deadline of the call at the moment the fetch is issued, max(0, deadline - now).
C18_EveryFetchGetsRemainingTime ==
    (call.timeout # None /\ call.timeout > 0) =>
        \A i \in 1..Len(fetches) :
            fetches[i].timeout = Max(0, call.start + call.timeout - fetches[i].at)

\* ------------------------------------------------------------------ C19
RECURSIVE LeafRuns(_, _, _, _)
\* the fetches a walk of children i.. of view v at nesting depth d is to make,
\* run being the leaf ids met since the last nested child: one fetch per maximal
\* run of leaves, before the fetches of the nested child that follows the run
LeafRuns(v, i, run, d) ==
    LET batch == IF run = <<>> THEN <<>> ELSE <<[message_ids |-> run, depth |-> d]>>
    IN IF i > Len(v.children) THEN batch
       ELSE IF v.children[i].is_collection
            THEN batch \o LeafRuns(v.children[i], 1, <<>>, d + 1)
                       \o LeafRuns(v, i + 1, <<>>, d)
            ELSE LeafRuns(v, i + 1, Append(run, v.children[i].message_id), d)

\* the ids and the nesting depth of the fetches made so far
FetchedRuns == [i \in 1..Len(fetches) |->
                   [message_ids |-> fetches[i].message_ids, depth |-> fetches[i].depth]]

\* C19: within one level of get(), each maximal run of consecutive leaf children
\* is fetched by exactly one call to the result store, with the ids in child
\* order, made before the call on the nested child that follows the run: the
\* fetches made so far are the first of the runs of the view, and all of them
\* when get() has finished.
C19_OneFetchPerLeafRun ==
    phase \in {"running", "done", "raised"} =>
        LET runs == LeafRuns(view, 1, <<>>, 1)
        IN /\ Len(fetches) <= Len(runs)
           /\ FetchedRuns = SubSeq(runs, 1, Len(fetches))
           /\ phase = "done" => Len(fetches) = Len(runs)

\* C19 witness: get() has finished on [leaf, leaf, [leaf]] with two fetches,
\* the first one of the two leaves, the second one made by the nested call
C19_Witness ==
    /\ phase = "done"
    /\ Len(view.children) = 3
    /\ view.children[3].is_collection
    /\ Len(fetches) = 2
    /\ Len(fetches[1].message_ids) = 2
    /\ fetches[1].depth = 1
    /\ fetches[2].depth = 2

\* ------------------------------------------------------------------ C20
RECURSIVE AllDicts(_)
\* the dict forms ds and every dict form in their pipe_target chains
AllDicts(ds) ==
    IF Len(ds) = 0 THEN <<>>
    ELSE <<Head(ds)>>
         \o (IF HasKey(Head(ds).options, "pipe_target")
             THEN AllDicts(Head(ds).options["pipe_target"]) ELSE <<>>)
         \o AllDicts(Tail(ds))

\* the built units of the last build or run, those in pipe_target included
BuiltDicts == AllDicts(AsDicts(lastOp.units))

\* C20: every unit built as a direct member of a group G carries group_info with
\* G's own group_id, the number of G's children and G's cancel_on_error flag,
\* also when G is the last step of a pipeline that is a member of another group.
C20_MembersCarryOwnGroupInfo ==
    (lastOp.op \in {"build", "run"} /\ err = "") =>
        \A g \in Nodes(Target) : IsGroup(g) =>
            \A i \in 1..Len(g.children) : IsMessage(g.children[i]) =>
                \A j \in 1..Len(BuiltDicts) :
                    BuiltDicts[j].message_id = g.children[i].id =>
                        /\ HasKey(BuiltDicts[j].options, "group_info")
                        /\ BuiltDicts[j].options["group_info"] = Info(g)

\* ------------------------------------------------------------------ C21
\* the ids of the messages that are steps of pipeline p: its message children
\* and the message members of its group steps
StepMessageIds(p) ==
    {x.id : x \in {y \in Range(p.children) : IsMessage(y)}}
    \cup UNION {{x.id : x \in {y \in Range(g.children) : IsMessage(y)}} :
                   g \in {y \in Range(p.children) : IsGroup(y)}}

\* C21: building a composition leaves the options handed to it unchanged, so
\* options do not leak between siblings: a built unit carries a pipeline_id
\* only when it is a step of the pipeline with that id (in a group that holds a
\* pipeline followed by a message, the unit of the message carries none).
C21_PipelineIdOnlyOnSteps ==
    (lastOp.op \in {"build", "run"} /\ err = "") =>
        \A j \in 1..Len(BuiltDicts) :
            HasKey(BuiltDicts[j].options, "pipeline_id") =>
                \E p \in Nodes(Target) :
                    /\ IsPipeline(p)
                    /\ p.id = BuiltDicts[j].options["pipeline_id"]
                    /\ BuiltDicts[j].message_id \in StepMessageIds(p)

\* ------------------------------------------------------------------ C22
\* the view from_message_ids builds from the ids of x, and the view x.results
FromIdsOf(x) == from_message_ids(message_ids(x))

\* every step of pipeline x is a message
MessageSteps(x) == IsPipeline(x) /\ \A i \in 1..Len(x.children) : IsMessage(x.children[i])

Occurrences(items, x) == Cardinality({i \in 1..Len(items) : items[i] = x})

\* C23: sort_dicts returns a permutation of its input, whatever the values of
\* the sort column (None, 0 or any other value): every record of the input is in
\* the output exactly once, so the count the state listing reports is the same
\* with a sort column as without one.
C23_SortKeepsEveryRecord ==
    (lastOp.op = "get_states" /\ Target.sort_column # "") =>
        LET unsorted == Listing(states, [Target EXCEPT !.sort_column = ""])
            data == sort_dicts(unsorted, Target.sort_column,
                               Target.sort_direction = "desc")
        IN /\ Len(data) = Len(unsorted)
           /\ \A i \in 1..Len(unsorted) : Occurrences(data, unsorted[i]) = 1
           /\ returned.count = Len(unsorted)

====
